---- MODULE Spec2Model ----
(***************************************************************************)
(* A model of universalinit: the template copy engine                      *)
(* (FileSystemHelper.copy_template), the processing script runner and the  *)
(* template orchestrator (ProjectTemplate.initialize,                      *)
(* ProjectInitializer.initialize_project).                                 *)
(*                                                                         *)
(* Strings and byte strings are sequences of one-character strings, a      *)
(* path is a sequence of names, and the file system is a function from     *)
(* absolute paths to entries.                                              *)
(***************************************************************************)
EXTENDS Integers, Sequences, FiniteSets, TLC

VARIABLES
    fs,             \* the file system: absolute path -> [kind, data]
    scanReverse,    \* the directory listing order of the file system (os.scandir)
    src,            \* copy_template's src argument
    dst,            \* copy_template's dst argument
    replacements,   \* copy_template's replacements: a dict, in insertion order
    include_hidden, \* copy_template's include_hidden argument
    runs,           \* how many times copy_template has run
    raised,         \* the exception the last run or the call raised, or "none"
    raised1,        \* the exception the first copy_template run raised, or "none"
    fs0,            \* the file system before the first run
    fs1,            \* the file system after the first run
    extra_files,    \* the extra_files keyword of the copy_template call, if passed
    results         \* what the calls made on a ProjectConfig returned, in order

VARIABLES
    config,         \* the ProjectConfig of the initialize_project call
    manifest,       \* what the template's config.yml holds
    pc,             \* where the initialize_project call stands
    result,         \* what initialize_project returned, or that it raised
    pre_process,    \* the pre-processing script's process
    post_process,   \* the post-processing script's process
    trace,          \* the steps of initialize taken so far, in order
    waitResult,     \* what wait_for_post_process_completed returned
    given,          \* the ProjectConfig as the caller built it
    args,           \* the command line of the cli.main run
    stdout,         \* the JSON documents cli.main has printed
    exit_code       \* the exit status of the cli.main run, -1 while it runs

orchVars ==
    <<config, manifest, pc, result, pre_process, post_process, trace, waitResult,
      given, args, stdout, exit_code>>

copyVars ==
    <<fs, scanReverse, src, dst, replacements, include_hidden, runs, raised, raised1, fs0, fs1,
      extra_files, results>>

vars == <<copyVars, orchVars>>

\* What an initialize_project call leaves alone.
callVars ==
    <<scanReverse, src, dst, replacements, include_hidden, runs, raised1, fs0, fs1,
      extra_files, results, given, args, stdout, exit_code>>

-----------------------------------------------------------------------------
(* Strings                                                                 *)

\* A byte that is not valid UTF-8 (0xFF).
BadByte == "#"

CR == "\r"

LF == "\n"

StartsWith(s, p) == Len(s) >= Len(p) /\ SubSeq(s, 1, Len(p)) = p

EndsWith(s, p) == Len(s) >= Len(p) /\ SubSeq(s, Len(s) - Len(p) + 1, Len(s)) = p

\* str.replace(old, new): every non-overlapping occurrence, leftmost first.
RECURSIVE Replace(_, _, _)
Replace(s, old, new) ==
    IF Len(s) < Len(old) \/ Len(old) = 0 THEN s
    ELSE IF SubSeq(s, 1, Len(old)) = old
         THEN new \o Replace(SubSeq(s, Len(old) + 1, Len(s)), old, new)
         ELSE <<Head(s)>> \o Replace(Tail(s), old, new)

\* Whether old occurs in s.
Contains(s, old) ==
    \E i \in 1..(Len(s) - Len(old) + 1) : SubSeq(s, i, i + Len(old) - 1) = old

\* f"${key}"
DollarToken(key) == <<"$">> \o key

\* f"{{{key}}}"
BraceToken(key) == <<"{">> \o key \o <<"}">>

\* A loop body that replaces the "$KEY" form only.
ReplaceKeyDollarOnly(content, key, value) ==
    Replace(content, DollarToken(key), value)

\* The loop body of the content substitution: both token forms of one key.
ReplaceKey(content, key, value) ==
    Replace(Replace(content, DollarToken(key), value), BraceToken(key), value)

\* for key, value in replacements.items(): content = content.replace(...)
RECURSIVE SubstituteContent(_, _)
SubstituteContent(content, repl) ==
    IF repl = <<>> THEN content
    ELSE SubstituteContent(ReplaceKey(content, Head(repl).key, Head(repl).value), Tail(repl))

\* for key, value in replacements.items(): dest_path_str = dest_path_str.replace(f"${key}", ...)
RECURSIVE SubstituteName(_, _)
SubstituteName(s, repl) ==
    IF repl = <<>> THEN s
    ELSE SubstituteName(Replace(s, DollarToken(Head(repl).key), Head(repl).value), Tail(repl))

\* Whether the bytes decode as UTF-8.
Decodable(bytes) == \A i \in 1..Len(bytes) : bytes[i] # BadByte

\* Text mode reading translates "\r\n" and "\r" to "\n" (universal newlines).
RECURSIVE TranslateNewlines(_)
TranslateNewlines(s) ==
    IF s = <<>> THEN <<>>
    ELSE IF Head(s) = CR
         THEN IF Len(s) >= 2 /\ s[2] = LF
              THEN <<LF>> \o TranslateNewlines(SubSeq(s, 3, Len(s)))
              ELSE <<LF>> \o TranslateNewlines(Tail(s))
         ELSE <<Head(s)>> \o TranslateNewlines(Tail(s))

-----------------------------------------------------------------------------
(* Paths                                                                   *)

Sep == "/"

\* str(path) of an absolute path.
RECURSIVE PathStr(_)
PathStr(p) ==
    IF p = <<>> THEN <<>>
    ELSE <<Sep>> \o Head(p) \o PathStr(Tail(p))

\* The components of a path string up to the next separator.
RECURSIVE FirstComponent(_)
FirstComponent(s) ==
    IF s = <<>> \/ Head(s) = Sep THEN <<>>
    ELSE <<Head(s)>> \o FirstComponent(Tail(s))

\* Path(str): split at the separators; empty and "." components are dropped.
RECURSIVE ParsePath(_)
ParsePath(s) ==
    IF s = <<>> THEN <<>>
    ELSE IF Head(s) = Sep THEN ParsePath(Tail(s))
    ELSE LET c == FirstComponent(s)
             rest == ParsePath(SubSeq(s, Len(c) + 1, Len(s)))
         IN IF c = <<".">> THEN rest ELSE <<c>> \o rest

\* The first component of a path that is relative to the working directory;
\* pathlib keeps no "." component, so no name of a path is this one.
CurDir == <<".">>

\* Path.is_absolute()
IsAbsolute(p) == p = <<>> \/ Head(p) # CurDir

\* The names of a relative path joined by the separator.
RECURSIVE JoinNames(_)
JoinNames(names) ==
    IF names = <<>> THEN <<>>
    ELSE IF Len(names) = 1 THEN Head(names)
    ELSE Head(names) \o <<Sep>> \o JoinNames(Tail(names))

\* str(path), of an absolute or a relative path.
PathText(p) ==
    IF IsAbsolute(p) THEN PathStr(p)
    ELSE IF Len(p) = 1 THEN CurDir
    ELSE JoinNames(Tail(p))

\* The entry the operating system reaches by a path: a ".." component
\* leads to the parent of the directory reached so far.
RECURSIVE Resolve(_, _)
Resolve(reached, rest) ==
    IF rest = <<>> THEN reached
    ELSE IF Head(rest) = <<".", ".">>
    THEN Resolve(IF reached = <<>> THEN <<>> ELSE SubSeq(reached, 1, Len(reached) - 1), Tail(rest))
    ELSE Resolve(Append(reached, Head(rest)), Tail(rest))

Parent(p) == SubSeq(p, 1, Len(p) - 1)

Name(p) == p[Len(p)]

IsUnder(p, d) == Len(p) > Len(d) /\ SubSeq(p, 1, Len(d)) = d

RelativeTo(p, d) == SubSeq(p, Len(d) + 1, Len(p))

-----------------------------------------------------------------------------
(* The file system                                                         *)

DirEntry == [kind |-> "dir", data |-> <<>>]

FileEntry(bytes) == [kind |-> "file", data |-> bytes]

\* Path.exists()
Exists(f, p) == p = <<>> \/ p \in DOMAIN f

\* Path.is_dir()
IsDir(f, p) == p = <<>> \/ (p \in DOMAIN f /\ f[p].kind = "dir")

\* Path.is_file()
IsFile(f, p) == p \in DOMAIN f /\ f[p].kind = "file"

AncestorIsFile(f, p) == \E i \in 1..(Len(p) - 1) : IsFile(f, SubSeq(p, 1, i))

Prefixes(p) == {SubSeq(p, 1, i) : i \in 1..Len(p)}

Ok(f) == [fs |-> f, raised |-> "none"]

Raise(f, e) == [fs |-> f, raised |-> e]

\* Path.mkdir(parents=True, exist_ok=exist_ok)
Mkdir(f, p, exist_ok) ==
    IF AncestorIsFile(f, p) THEN Raise(f, "NotADirectoryError")
    ELSE IF Exists(f, p)
         THEN IF exist_ok /\ IsDir(f, p) THEN Ok(f) ELSE Raise(f, "FileExistsError")
         ELSE Ok([q \in DOMAIN f \cup Prefixes(p) |->
                     IF q \in DOMAIN f THEN f[q] ELSE DirEntry])

\* A write that opens the file for appending.
WriteFileAppend(f, p, bytes) ==
    IF AncestorIsFile(f, p) THEN Raise(f, "NotADirectoryError")
    ELSE IF ~Exists(f, Parent(p)) THEN Raise(f, "FileNotFoundError")
    ELSE IF IsDir(f, p) THEN Raise(f, "IsADirectoryError")
    ELSE Ok([q \in DOMAIN f \cup {p} |->
                IF q # p THEN f[q]
                ELSE FileEntry((IF p \in DOMAIN f THEN f[p].data ELSE <<>>) \o bytes)])

\* open(p, "w") and write: Path.write_text and Path.write_bytes
WriteFile(f, p, bytes) ==
    IF AncestorIsFile(f, p) THEN Raise(f, "NotADirectoryError")
    ELSE IF ~Exists(f, Parent(p)) THEN Raise(f, "FileNotFoundError")
    ELSE IF IsDir(f, p) THEN Raise(f, "IsADirectoryError")
    ELSE Ok([q \in DOMAIN f \cup {p} |-> IF q = p THEN FileEntry(bytes) ELSE f[q]])

\* The ranks os.scandir lists names by: the listing order of a directory is the
\* file system's own, ascending or descending here.
NameOrder == <<
    <<"f">>, <<".", "h">>, <<".", "d">>, <<"g">>, <<"d">>, <<"b">>,
    <<"c", "o", "n", "f", "i", "g", ".", "y", "m", "l">>,
    <<"_", "_", "p", "_", "_">>, <<"$", "A">>, <<"x">>,
    <<"t", "e", "s", "t", "-", "s", "e", "t", "u", "p">> >>

NameRank(n) ==
    IF \E i \in 1..Len(NameOrder) : NameOrder[i] = n
    THEN CHOOSE i \in 1..Len(NameOrder) : NameOrder[i] = n
    ELSE 0

Children(f, d) == {p \in DOMAIN f : Len(p) = Len(d) + 1 /\ Parent(p) = d}

RECURSIVE SortByRank(_, _)
SortByRank(S, rev) ==
    IF S = {} THEN <<>>
    ELSE LET m == CHOOSE x \in S : \A y \in S :
                     IF rev THEN NameRank(Name(x)) >= NameRank(Name(y))
                            ELSE NameRank(Name(x)) <= NameRank(Name(y))
         IN <<m>> \o SortByRank(S \ {m}, rev)

\* os.scandir(d)
Scandir(f, d, rev) == SortByRank(Children(f, d), rev)

\* The directories still to list, first first: rglob lists a directory's
\* entries, then descends into its subdirectories in listing order.
RECURSIVE WalkDirs(_, _, _)
WalkDirs(f, stack, rev) ==
    IF stack = <<>> THEN <<>>
    ELSE LET kids == Scandir(f, Head(stack), rev)
             subdirs == SelectSeq(kids, LAMBDA p : IsDir(f, p))
         IN kids \o WalkDirs(f, subdirs \o Tail(stack), rev)

\* src.rglob("*")
Rglob(f, d, rev) == WalkDirs(f, <<d>>, rev)

-----------------------------------------------------------------------------
(* FileSystemHelper.copy_template                                          *)

\* excluded_files
ConfigYml == <<"c", "o", "n", "f", "i", "g", ".", "y", "m", "l">>

\* item.name.startswith('__') and item.name.endswith('__')
IsDunder(name) == StartsWith(name, <<"_", "_">>) /\ EndsWith(name, <<"_", "_">>)

\* item.name.startswith('.')
IsHiddenName(name) == StartsWith(name, <<".">>)

\* A filter that skips hidden files whatever include_hidden is.
SkippedHiddenAlways(f, item, hidden) ==
    \/ Name(item) = ConfigYml
    \/ IsDunder(Name(item))
    \/ (IsHiddenName(Name(item)) /\ IsFile(f, item))

\* The two `continue` conditions of the loop.
Skipped(f, item, hidden) ==
    \/ Name(item) = ConfigYml
    \/ IsDunder(Name(item))
    \/ (~hidden /\ IsHiddenName(Name(item)) /\ IsFile(f, item))

\* The destination of a file: dst / relative_path, with "$KEY" replaced in the
\* whole path string; the file system then follows the path's ".." names.
FileDestination(item, s, d, repl) ==
    Resolve(<<>>, ParsePath(SubstituteName(PathStr(d \o RelativeTo(item, s)), repl)))

\* Path.read_text(): the decoded text, or UnicodeDecodeError.
read_text(bytes) ==
    IF Decodable(bytes)
    THEN [raised |-> "none", text |-> TranslateNewlines(bytes)]
    ELSE [raised |-> "UnicodeDecodeError", text |-> <<>>]

\* A loop body that lets UnicodeDecodeError through.
CopyItemNoExcept(f, item, s, d, repl) ==
    IF IsDir(f, item)
    THEN Mkdir(f, d \o RelativeTo(item, s), TRUE)
    ELSE LET destination == FileDestination(item, s, d, repl)
             made == Mkdir(f, Parent(destination), TRUE)
             read == read_text(f[item].data)
         IN IF made.raised # "none" THEN made
            ELSE IF read.raised # "none" THEN Raise(made.fs, read.raised)
            ELSE WriteFile(made.fs, destination, SubstituteContent(read.text, repl))

\* The body of the loop for one item that is not skipped: a directory is
\* made under its own name; a file is written under its substituted path,
\* with its text substituted (try) or its bytes as they are (except
\* UnicodeDecodeError).
CopyItem(f, item, s, d, repl) ==
    IF IsDir(f, item)
    THEN Mkdir(f, d \o RelativeTo(item, s), TRUE)
    ELSE LET destination == FileDestination(item, s, d, repl)
             made == Mkdir(f, Parent(destination), TRUE)
             read == read_text(f[item].data)
         IN IF made.raised # "none" THEN made
            ELSE IF read.raised = "none"
                 THEN WriteFile(made.fs, destination, SubstituteContent(read.text, repl))
                 ELSE WriteFile(made.fs, destination, f[item].data)

\* The loop over src.rglob("*"): an exception ends it.
RECURSIVE CopyItems(_, _, _, _, _, _)
CopyItems(st, items, s, d, repl, hidden) ==
    IF items = <<>> \/ st.raised # "none" THEN st
    ELSE LET item == Head(items)
         IN IF Skipped(st.fs, item, hidden)
            THEN CopyItems(st, Tail(items), s, d, repl, hidden)
            ELSE CopyItems(CopyItem(st.fs, item, s, d, repl), Tail(items), s, d, repl, hidden)

\* A copy that makes the destination before it looks for the source.
copy_templateMkdirFirst(f, s, d, repl, hidden, rev) ==
    LET made == IF ~Exists(f, d) THEN Mkdir(f, d, FALSE) ELSE Ok(f)
    IN IF ~Exists(f, s) THEN Raise(made.fs, "FileNotFoundError")
       ELSE CopyItems(made, Rglob(f, s, rev), s, d, repl, hidden)

copy_template(f, s, d, repl, hidden, rev) ==
    IF ~Exists(f, s) THEN Raise(f, "FileNotFoundError")
    ELSE LET made == IF ~Exists(f, d) THEN Mkdir(f, d, FALSE) ELSE Ok(f)
         IN CopyItems(made, Rglob(f, s, rev), s, d, repl, hidden)

\* The extra_files keyword when the call does not pass it.
NoExtraFiles == [passed |-> FALSE, paths |-> <<>>]

\* copy_template(src, dst, replacements, include_hidden, extra_files=...):
\* the signature has no parameter extra_files, and a call that passes the
\* keyword raises TypeError before the body runs.
copy_template_call(f, s, d, repl, hidden, extra, rev) ==
    IF extra.passed THEN Raise(f, "TypeError")
    ELSE copy_template(f, s, d, repl, hidden, rev)

-----------------------------------------------------------------------------
(* The inputs of the copy engine                                           *)

\* The most entries a source tree has.
MaxEntries == 3

\* The longest file content the substitution is run on.
MaxContentLen == 3

KeyA == <<"A">>

KeyB == <<"B">>

KeyAB == <<"A", "B">>

TemplateRoot == << <<"t">> >>

OutputRoot == << <<"w">>, <<"o">> >>

\* The entries a source tree is made of, relative to its root. A file's
\* content is its tag followed by the content chosen for the tree, so that
\* two files never have the same content; "b" is always binary.
Universe == {
    [rel |-> << <<"f">> >>,                                kind |-> "file", tag |-> "1"],
    [rel |-> << <<".", "h">> >>,                           kind |-> "file", tag |-> "2"],
    [rel |-> << <<".", "d">> >>,                           kind |-> "dir",  tag |-> "0"],
    [rel |-> << <<".", "d">>, <<"g">> >>,                  kind |-> "file", tag |-> "3"],
    [rel |-> << <<".", "d">>, <<".", "h">> >>,             kind |-> "file", tag |-> "4"],
    [rel |-> << <<"d">> >>,                                kind |-> "dir",  tag |-> "0"],
    [rel |-> << <<"d">>, <<"f">> >>,                       kind |-> "file", tag |-> "5"],
    [rel |-> << <<"b">> >>,                                kind |-> "file", tag |-> BadByte],
    [rel |-> << ConfigYml >>,                              kind |-> "file", tag |-> "6"],
    [rel |-> << <<"_", "_", "p", "_", "_">> >>,            kind |-> "dir",  tag |-> "0"],
    [rel |-> << <<"_", "_", "p", "_", "_">>, <<"g">> >>,   kind |-> "file", tag |-> "7"],
    [rel |-> << <<"$", "A">> >>,                           kind |-> "file", tag |-> "8"],
    [rel |-> << <<"$", "A">> >>,                           kind |-> "dir",  tag |-> "0"],
    [rel |-> << <<"$", "A">>, <<"g">> >>,                  kind |-> "file", tag |-> "9"] }

\* No two entries of a tree have the same path.
UniqueRel(T) == \A e1, e2 \in T : e1.rel = e2.rel => e1 = e2

ParentClosed(T) ==
    \A e \in T : Len(e.rel) > 1 =>
        \E q \in T : q.rel = Parent(e.rel) /\ q.kind = "dir"

SrcTrees ==
    {T \in SUBSET Universe : Cardinality(T) <= MaxEntries /\ ParentClosed(T) /\ UniqueRel(T)}

\* The contents a tree's files are given.
FileContents == {
    <<"$", "A">>,
    <<"{", "B", "}", "x">>,
    <<BadByte, "$", "A">> }

EntryOf(e, content) ==
    IF e.kind = "dir" THEN DirEntry ELSE FileEntry(<<e.tag>> \o content)

\* The template directory holding tree T.
TreeFs(root, T, content) ==
    [p \in Prefixes(root) \cup {root \o e.rel : e \in T} |->
        IF p \in Prefixes(root) THEN DirEntry
        ELSE EntryOf(CHOOSE e \in T : root \o e.rel = p, content)]

EmptyFs == [p \in {} |-> DirEntry]

\* What is at the destination before the copy: nothing; an empty directory;
\* a directory with files of an earlier run; a file where a directory of the
\* template goes.
DstStates == {
    EmptyFs,
    [p \in Prefixes(OutputRoot) |-> DirEntry],
    [p \in Prefixes(OutputRoot) \cup {OutputRoot \o << <<"x">> >>, OutputRoot \o << <<"f">> >>} |->
        IF p \in Prefixes(OutputRoot) THEN DirEntry ELSE FileEntry(<<"o", "l", "d">>)],
    [p \in Prefixes(OutputRoot) \cup {OutputRoot \o << <<"d">> >>} |->
        IF p \in Prefixes(OutputRoot) THEN DirEntry ELSE FileEntry(<<"o", "l", "d">>)] }

Entry(k, v) == [key |-> k, value |-> v]

\* The replacement maps the trees are copied with.
TreeMaps == {
    <<>>,
    <<Entry(KeyA, <<"v">>)>>,
    <<Entry(KeyA, <<"f">>)>>,
    <<Entry(KeyA, <<"d">>), Entry(KeyB, <<"$", "A">>)>> }

\* All strings over S of length at most n.
RECURSIVE Strings(_, _)
Strings(S, n) ==
    IF n = 0 THEN {<<>>}
    ELSE LET shorter == Strings(S, n - 1)
         IN shorter \cup {<<c>> \o t : c \in S, t \in {u \in shorter : Len(u) = n - 1}}

ContentChars == {"$", "{", "}", "A", "B", "x"}

\* The values of a replacement map: empty, plain, a key's name, and values
\* that hold a token themselves.
Values == {<<>>, <<"x">>, <<"x", "y">>, <<"A">>, <<"$">>, <<"$", "A">>, <<"{", "B", "}">>}

\* Values that share no character with a token.
PlainValues == {<<>>, <<"x">>, <<"x", "y">>}

\* The replacement maps the substitution is run with: one key, or two in
\* either insertion order, among them a key that is a prefix of the other.
SubstMaps ==
    {<<Entry(k, v)>> : k \in {KeyA, KeyB, KeyAB}, v \in Values}
    \cup {<<Entry(KeyA, v), Entry(KeyB, w)>> : v \in Values, w \in Values}
    \cup {<<Entry(KeyB, v), Entry(KeyA, w)>> : v \in Values, w \in Values}
    \cup {<<Entry(KeyA, v), Entry(KeyAB, w)>> : v \in PlainValues, w \in PlainValues}
    \cup {<<Entry(KeyAB, v), Entry(KeyA, w)>> : v \in PlainValues, w \in PlainValues}

-----------------------------------------------------------------------------
(* ProjectConfig and the replacement map                                   *)

KAVIA_TEMPLATE_PROJECT_NAME == <<"K", "A", "V", "I", "A", "_", "T", "E", "M", "P", "L", "A", "T", "E", "_", "P", "R", "O", "J", "E", "C", "T", "_", "N", "A", "M", "E">>

KAVIA_PROJECT_DESCRIPTION == <<"K", "A", "V", "I", "A", "_", "P", "R", "O", "J", "E", "C", "T", "_", "D", "E", "S", "C", "R", "I", "P", "T", "I", "O", "N">>

KAVIA_PROJECT_AUTHOR == <<"K", "A", "V", "I", "A", "_", "P", "R", "O", "J", "E", "C", "T", "_", "A", "U", "T", "H", "O", "R">>

KAVIA_PROJECT_VERSION == <<"K", "A", "V", "I", "A", "_", "P", "R", "O", "J", "E", "C", "T", "_", "V", "E", "R", "S", "I", "O", "N">>

KAVIA_USE_TYPESCRIPT == <<"K", "A", "V", "I", "A", "_", "U", "S", "E", "_", "T", "Y", "P", "E", "S", "C", "R", "I", "P", "T">>

KAVIA_STYLING_SOLUTION == <<"K", "A", "V", "I", "A", "_", "S", "T", "Y", "L", "I", "N", "G", "_", "S", "O", "L", "U", "T", "I", "O", "N">>

KAVIA_PROJECT_DIRECTORY == <<"K", "A", "V", "I", "A", "_", "P", "R", "O", "J", "E", "C", "T", "_", "D", "I", "R", "E", "C", "T", "O", "R", "Y">>

\* The values of parameters: a bool or a string.
BoolParam(b) == [t |-> "bool", b |-> b, s |-> <<>>]

StrParam(str) == [t |-> "str", b |-> FALSE, s |-> str]

UpperLetters == <<"A", "B", "C", "D", "E", "F", "G", "H", "I", "J", "K", "L", "M", "N", "O", "P", "Q", "R", "S", "T", "U", "V", "W", "X", "Y", "Z">>

LowerLetters == <<"a", "b", "c", "d", "e", "f", "g", "h", "i", "j", "k", "l", "m", "n", "o", "p", "q", "r", "s", "t", "u", "v", "w", "x", "y", "z">>

LowerChar(c) ==
    IF \E i \in 1..Len(UpperLetters) : UpperLetters[i] = c
    THEN LowerLetters[CHOOSE i \in 1..Len(UpperLetters) : UpperLetters[i] = c]
    ELSE c

\* str.lower()
Lower(str) == [i \in 1..Len(str) |-> LowerChar(str[i])]

\* str(value)
PyStr(val) ==
    IF val.t = "bool" THEN (IF val.b THEN <<"T", "r", "u", "e">> ELSE <<"F", "a", "l", "s", "e">>) ELSE val.s

\* dict.get(key, default)
Get(params, key, default) == IF key \in DOMAIN params THEN params[key] ELSE default

\* A map that is computed on the first call and kept for the later ones.
get_replaceable_parametersCached(cfg) ==
    IF \E i \in 1..Len(results) : results[i].call = "get_replaceable_parameters"
    THEN results[CHOOSE i \in 1..Len(results) :
                    /\ results[i].call = "get_replaceable_parameters"
                    /\ \A j \in 1..(i - 1) : results[j].call # "get_replaceable_parameters"].map
    ELSE <<
        Entry(KAVIA_TEMPLATE_PROJECT_NAME, cfg.name),
        Entry(KAVIA_PROJECT_DESCRIPTION, cfg.description),
        Entry(KAVIA_PROJECT_AUTHOR, cfg.author),
        Entry(KAVIA_PROJECT_VERSION, cfg.version),
        Entry(KAVIA_USE_TYPESCRIPT, Lower(PyStr(Get(cfg.parameters, "typescript", BoolParam(FALSE))))),
        Entry(KAVIA_STYLING_SOLUTION, PyStr(Get(cfg.parameters, "styling_solution", StrParam(<<"c", "s", "s">>)))),
        Entry(KAVIA_PROJECT_DIRECTORY, PathText(cfg.output_path)) >>

get_replaceable_parameters(cfg) == <<
    Entry(KAVIA_TEMPLATE_PROJECT_NAME, cfg.name),
    Entry(KAVIA_PROJECT_DESCRIPTION, cfg.description),
    Entry(KAVIA_PROJECT_AUTHOR, cfg.author),
    Entry(KAVIA_PROJECT_VERSION, cfg.version),
    Entry(KAVIA_USE_TYPESCRIPT, Lower(PyStr(Get(cfg.parameters, "typescript", BoolParam(FALSE))))),
    Entry(KAVIA_STYLING_SOLUTION, PyStr(Get(cfg.parameters, "styling_solution", StrParam(<<"c", "s", "s">>)))),
    Entry(KAVIA_PROJECT_DIRECTORY, PathText(cfg.output_path)) >>

replace_parameters(cfg, content) == SubstituteContent(content, get_replaceable_parameters(cfg))

-----------------------------------------------------------------------------
(* Templates                                                               *)

\* ProjectType
ProjectTypes == {"android", "angular", "astro", "fastapi", "flutter", "ios", "nativescript", "nextjs", "node", "nuxt", "python", "qwik", "react", "remix", "remotion", "slidev", "svelte", "typescript", "vite", "vue"}

\* ProjectType.value
TypeValue == [
    android |-> <<"a", "n", "d", "r", "o", "i", "d">>,
    angular |-> <<"a", "n", "g", "u", "l", "a", "r">>,
    astro |-> <<"a", "s", "t", "r", "o">>,
    fastapi |-> <<"f", "a", "s", "t", "a", "p", "i">>,
    flutter |-> <<"f", "l", "u", "t", "t", "e", "r">>,
    ios |-> <<"i", "o", "s">>,
    nativescript |-> <<"n", "a", "t", "i", "v", "e", "s", "c", "r", "i", "p", "t">>,
    nextjs |-> <<"n", "e", "x", "t", "j", "s">>,
    node |-> <<"n", "o", "d", "e">>,
    nuxt |-> <<"n", "u", "x", "t">>,
    python |-> <<"p", "y", "t", "h", "o", "n">>,
    qwik |-> <<"q", "w", "i", "k">>,
    react |-> <<"r", "e", "a", "c", "t">>,
    remix |-> <<"r", "e", "m", "i", "x">>,
    remotion |-> <<"r", "e", "m", "o", "t", "i", "o", "n">>,
    slidev |-> <<"s", "l", "i", "d", "e", "v">>,
    svelte |-> <<"s", "v", "e", "l", "t", "e">>,
    typescript |-> <<"t", "y", "p", "e", "s", "c", "r", "i", "p", "t">>,
    vite |-> <<"v", "i", "t", "e">>,
    vue |-> <<"v", "u", "e">> ]

\* The template classes ProjectInitializer registers.
Registered == {"android", "angular", "astro", "flutter", "nativescript", "nextjs", "nuxt", "qwik", "react", "remix", "remotion", "slidev", "svelte", "typescript", "vite", "vue"}

\* TemplateProvider.base_path
BasePath == TemplateRoot

\* TemplateProvider.get_template_path
get_template_path(f, project_type) ==
    LET template_path == BasePath \o <<TypeValue[project_type]>>
    IN [raised |-> IF Exists(f, template_path) THEN "none" ELSE "FileNotFoundError",
        path |-> template_path]

\* ProjectTemplateFactory.create_template: the class lookup, then the
\* constructor, which resolves the template path.
create_template(f, cfg) ==
    IF cfg.project_type \notin Registered THEN "ValueError"
    ELSE get_template_path(f, cfg.project_type).raised

TemplatePath(cfg) == BasePath \o <<TypeValue[cfg.project_type]>>

RequiredParams == {"typescript", "styling_solution"}

\* AstroTemplate's allowed_params
AllowedParams ==
    {"typescript", "integration_tailwind", "integration_react", "integration_vue",
     "integration_svelte"}

\* Defaults that replace what the caller passed.
WithDefaultsOverriding(params) ==
    [k \in DOMAIN params \cup RequiredParams |->
        IF k = "typescript" THEN BoolParam(TRUE)
        ELSE IF k = "styling_solution" THEN StrParam(<<"c", "s", "s">>)
        ELSE params[k]]

\* NextJSTemplate.validate_parameters: a missing parameter gets its default.
WithDefaults(params) ==
    [k \in DOMAIN params \cup RequiredParams |->
        IF k \in DOMAIN params THEN params[k]
        ELSE IF k = "typescript" THEN BoolParam(TRUE) ELSE StrParam(<<"c", "s", "s">>)]

\* An Astro validation that accepts any parameters, as most classes do.
validate_parametersOpen(project_type, params) ==
    IF project_type \in {"react", "remix"}
    THEN [ok |-> RequiredParams \subseteq DOMAIN params, params |-> params]
    ELSE IF project_type = "nextjs"
    THEN [ok |-> TRUE, params |-> WithDefaults(params)]
    ELSE [ok |-> TRUE, params |-> params]

\* A React validation that accepts any parameters, as most classes do.
validate_parametersLenient(project_type, params) ==
    IF project_type = "nextjs"
    THEN [ok |-> TRUE, params |-> WithDefaults(params)]
    ELSE IF project_type = "astro"
    THEN [ok |-> DOMAIN params \subseteq AllowedParams, params |-> params]
    ELSE [ok |-> TRUE, params |-> params]

\* validate_parameters of every template class: whether the parameters are
\* valid, and the parameters as it leaves them.
validate_parameters(project_type, params) ==
    IF project_type \in {"react", "remix"}
    THEN [ok |-> RequiredParams \subseteq DOMAIN params, params |-> params]
    ELSE IF project_type = "nextjs"
    THEN [ok |-> TRUE, params |-> WithDefaults(params)]
    ELSE IF project_type = "astro"
    THEN [ok |-> DOMAIN params \subseteq AllowedParams, params |-> params]
    ELSE [ok |-> TRUE, params |-> params]

\* The include_hidden argument of each class's generate_structure.
IncludeHidden(project_type) ==
    project_type \in {"android", "astro", "flutter", "nativescript", "nextjs", "nuxt", "qwik", "remix", "slidev", "svelte"}

TestSetup == <<"t", "e", "s", "t", "-", "s", "e", "t", "u", "p">>

TestDir == <<"t", "e", "s", "t">>

\* A get_init_info that takes a missing manifest for one without scripts.
get_init_infoNoCheck(f, cfg, m) ==
    IF m.state # "ok"
    THEN [raised |-> "KeyError", pre_processing |-> <<>>, post_processing |-> <<>>]
    ELSE [raised |-> "none",
          pre_processing |-> replace_parameters(cfg, m.pre),
          post_processing |-> replace_parameters(cfg, m.post)]

\* TemplateConfigProvider.get_init_info: the manifest must exist; its text
\* goes through replace_parameters before it is parsed.
get_init_info(f, cfg, m) ==
    IF ~Exists(f, TemplatePath(cfg) \o <<ConfigYml>>)
    THEN [raised |-> "FileNotFoundError", pre_processing |-> <<>>, post_processing |-> <<>>]
    ELSE IF m.state # "ok"
    THEN [raised |-> "KeyError", pre_processing |-> <<>>, post_processing |-> <<>>]
    ELSE [raised |-> "none",
          pre_processing |-> replace_parameters(cfg, m.pre),
          post_processing |-> replace_parameters(cfg, m.post)]

\* A test that finds no script ever.
HasScriptNever(script) == FALSE

\* init_info.pre_processing and init_info.pre_processing.script
HasScript(script) == script # <<>>

\* subprocess.run(check=False): no exit status raises.
CheckExitIgnored(outcome) == outcome # "oserror"

\* subprocess.run(check=True): a non-zero exit raises CalledProcessError, and
\* a script that cannot be started raises OSError.
CheckExit(outcome) == outcome = "exit0"

\* An initialize that generates the structure before it runs pre-processing.
StepAfterGenerateFirst(step) ==
    CASE step = "validate" -> "generate"
      [] step = "generate" -> "pre"
      [] step = "pre" -> "testing"
      [] step = "testing" -> "post"
      [] step = "post" -> "returned"

\* The order of the calls in ProjectTemplate.initialize.
StepAfter(step) ==
    CASE step = "validate" -> "pre"
      [] step = "pre" -> "generate"
      [] step = "generate" -> "testing"
      [] step = "testing" -> "post"
      [] step = "post" -> "returned"

-----------------------------------------------------------------------------
(* cli.py: the command line                                                *)

Digits == {"0", "1", "2", "3", "4", "5", "6", "7", "8", "9"}

\* str.isdigit()
IsDigit(str) == str # <<>> /\ \A i \in 1..Len(str) : str[i] \in Digits

\* str(int(value)): the digits without leading zeros.
RECURSIVE IntText(_)
IntText(str) ==
    IF Len(str) > 1 /\ Head(str) = "0" THEN IntText(Tail(str)) ELSE str

\* An int parameter, by its decimal text, and a float, by the text parsed.
IntParam(str) == [t |-> "int", b |-> FALSE, s |-> IntText(str)]

FloatParam(str) == [t |-> "float", b |-> FALSE, s |-> str]

\* str.strip() of a key.
RECURSIVE Strip(_)
Strip(str) ==
    IF str # <<>> /\ Head(str) = " " THEN Strip(Tail(str))
    ELSE IF str # <<>> /\ str[Len(str)] = " " THEN Strip(SubSeq(str, 1, Len(str) - 1))
    ELSE str

\* The value conversion of parse_parameters.
ParseValue(value) ==
    IF Lower(value) = <<"t", "r", "u", "e">> THEN BoolParam(TRUE)
    ELSE IF Lower(value) = <<"f", "a", "l", "s", "e">> THEN BoolParam(FALSE)
    ELSE IF IsDigit(value) THEN IntParam(value)
    ELSE IF /\ IsDigit(SelectSeq(value, LAMBDA c : c # "."))
            /\ Len(SelectSeq(value, LAMBDA c : c = ".")) = 1
    THEN FloatParam(value)
    ELSE StrParam(value)

\* One piece of params_str.split(','): the text before and after its first
\* '=', or a piece without '='.
Piece(key, value) == [eq |-> TRUE, key |-> key, value |-> value]

BarePiece(text) == [eq |-> FALSE, key |-> text, value |-> <<>>]

\* The keys parameters are checked for, by their text.
KeyText == [
    typescript |-> <<"t", "y", "p", "e", "s", "c", "r", "i", "p", "t">>,
    styling_solution |-> <<"s", "t", "y", "l", "i", "n", "g", "_", "s", "o", "l", "u", "t", "i", "o", "n">>,
    other |-> <<"o", "t", "h", "e", "r">> ]

\* parse_parameters: a piece without '=' is dropped, a later piece with the
\* same key wins.
parse_parameters(pieces) ==
    LET keys == {k \in DOMAIN KeyText :
                    \E i \in 1..Len(pieces) : pieces[i].eq /\ Strip(pieces[i].key) = KeyText[k]}
        last(k) == CHOOSE i \in 1..Len(pieces) :
                      /\ pieces[i].eq /\ Strip(pieces[i].key) = KeyText[k]
                      /\ \A j \in (i + 1)..Len(pieces) :
                            ~(pieces[j].eq /\ Strip(pieces[j].key) = KeyText[k])
    IN [k \in keys |-> ParseValue(pieces[last(k)].value)]

UnsupportedType == <<"U", "n", "s", "u", "p", "p", "o", "r", "t", "e", "d", " ", "p", "r", "o", "j", "e", "c", "t", " ", "t", "y", "p", "e", ":", " ">>

\* A from_string that falls back on a type when the text names none.
from_stringLenient(value) ==
    IF \E t \in ProjectTypes : TypeValue[t] = Lower(value)
    THEN [raised |-> "none", message |-> <<>>,
          type |-> CHOOSE t \in ProjectTypes : TypeValue[t] = Lower(value)]
    ELSE [raised |-> "none", message |-> <<>>, type |-> "react"]

\* ProjectType.from_string
from_string(value) ==
    IF \E t \in ProjectTypes : TypeValue[t] = Lower(value)
    THEN [raised |-> "none", message |-> <<>>,
          type |-> CHOOSE t \in ProjectTypes : TypeValue[t] = Lower(value)]
    ELSE [raised |-> "ValueError", message |-> UnsupportedType \o value, type |-> "python"]

-----------------------------------------------------------------------------
(* ProjectInitializer.initialize_project                                   *)

MarkerDir == << <<"m">> >>

\* The file a script leaves when it has done its work.
Marker(label) == MarkerDir \o <<label>>

PreLabel == <<"p", "r", "e">>

PostLabel == <<"p", "o", "s", "t">>

Step(name, ok) == [step |-> name, ok |-> ok]

\* tempfile's directory.
TempDir == << <<"t", "m", "p">> >>

\* The name NamedTemporaryFile(suffix='.sh', delete=False) gives the script.
TempScript(label) == TempDir \o << label \o <<".", "s", "h">> >>

\* Path.unlink()
Unlink(f, p) == [q \in DOMAIN f \ {p} |-> f[q]]

\* The `with` block of _run_processing_script: the temporary file is made and
\* the script written to it; a write or flush that raises (a text that does
\* not encode, a full disk) leaves the file, which delete=False keeps, before
\* the try/finally is entered.
WriteScript(f, label, script, written) ==
    IF written
    THEN WriteFile(f, TempScript(label), script)
    ELSE Raise(WriteFile(f, TempScript(label), <<>>).fs, "UnicodeEncodeError")

\* `return True`, or the next call of initialize.
Proceed(step) ==
    /\ pc' = StepAfter(step)
    /\ result' = IF StepAfter(step) = "returned" THEN "True" ELSE result
    /\ raised' = raised

\* The except clause of initialize: `return False`.
Fail(exception) ==
    /\ pc' = "returned"
    /\ result' = "False"
    /\ raised' = exception

\* initialize_project, up to template.initialize(): an exception of
\* create_template is not caught.
CreateTemplate ==
    /\ pc = "call"
    /\ LET e == create_template(fs, config)
       IN IF e = "none"
          THEN /\ pc' = "validate"
               /\ UNCHANGED <<result, raised>>
          ELSE /\ pc' = "returned"
               /\ result' = "raised"
               /\ raised' = e
    /\ UNCHANGED <<fs, config, manifest, pre_process, post_process, trace, waitResult>>
    /\ UNCHANGED callVars

\* if not self.validate_parameters(): raise ValueError
ValidateParameters ==
    /\ pc = "validate"
    /\ LET v == validate_parameters(config.project_type, config.parameters)
       IN /\ config' = [config EXCEPT !.parameters = v.params]
          /\ trace' = Append(trace, Step("validate_parameters", v.ok))
          /\ IF v.ok THEN Proceed("validate") ELSE Fail("ValueError")
    /\ UNCHANGED <<fs, manifest, pre_process, post_process, waitResult>>
    /\ UNCHANGED callVars

\* run_pre_processing, up to the start of the script.
RunPreProcessing ==
    /\ pc = "pre"
    /\ LET info == get_init_info(fs, config, manifest)
       IN IF info.raised # "none"
          THEN /\ Fail(info.raised)
               /\ trace' = Append(trace, Step("get_init_info", FALSE))
               /\ UNCHANGED <<pre_process, fs>>
          ELSE IF HasScript(info.pre_processing)
          THEN \E written \in BOOLEAN :
                LET w == WriteScript(fs, PreLabel, info.pre_processing, written)
                IN /\ fs' = w.fs
                   /\ IF w.raised = "none"
                      THEN /\ pre_process' = "running"
                           /\ pc' = "pre_wait"
                           /\ trace' = Append(trace, Step("pre_launch", TRUE))
                           /\ UNCHANGED <<result, raised>>
                      ELSE /\ Fail(w.raised)
                           /\ trace' = Append(trace, Step("pre_write", FALSE))
                           /\ UNCHANGED pre_process
          ELSE /\ Proceed("pre")
               /\ UNCHANGED <<pre_process, trace, fs>>
    /\ UNCHANGED <<config, manifest, post_process, waitResult>>
    /\ UNCHANGED callVars

\* What a script that ends leaves in the file system: its marker when it
\* exits 0, and possibly when it exits non-zero.
ScriptEffect(f, label, outcome, wrote) ==
    IF outcome = "exit0" \/ (outcome = "nonzero" /\ wrote)
    THEN WriteFile(f, Marker(label), <<"d", "o", "n", "e">>).fs
    ELSE f

\* The pre-processing script ends: subprocess.run returns or raises, and the
\* finally clause unlinks the temporary file.
PreExit ==
    /\ pc = "pre_wait"
    /\ \E outcome \in {"exit0", "nonzero", "oserror"}, wrote \in BOOLEAN :
        /\ (outcome # "nonzero") => wrote
        /\ pre_process' = outcome
        /\ fs' = Unlink(ScriptEffect(fs, PreLabel, outcome, wrote), TempScript(PreLabel))
        /\ trace' = Append(trace, Step("pre_exit", CheckExit(outcome)))
        /\ IF CheckExit(outcome) THEN Proceed("pre")
           ELSE Fail(IF outcome = "nonzero" THEN "CalledProcessError" ELSE "OSError")
    /\ UNCHANGED <<config, manifest, post_process, waitResult>>
    /\ UNCHANGED callVars

\* generate_structure of every template class.
GenerateStructure ==
    /\ pc = "generate"
    /\ LET r == copy_template(fs, TemplatePath(config), config.output_path,
                              get_replaceable_parameters(config),
                              IncludeHidden(config.project_type), scanReverse)
       IN /\ fs' = r.fs
          /\ trace' = Append(trace, Step("generate_structure", r.raised = "none"))
          /\ IF r.raised = "none" THEN Proceed("generate") ELSE Fail(r.raised)
    /\ UNCHANGED <<config, manifest, pre_process, post_process, waitResult>>
    /\ UNCHANGED callVars

\* setup_testing: React and Remix copy test-setup when the template has it.
SetupTesting ==
    /\ pc = "testing"
    /\ IF /\ config.project_type \in {"react", "remix"}
          /\ Exists(fs, TemplatePath(config) \o <<TestSetup>>)
       THEN LET r == copy_template(fs, TemplatePath(config) \o <<TestSetup>>,
                                   config.output_path \o <<TestDir>>,
                                   <<Entry(BraceToken(KAVIA_TEMPLATE_PROJECT_NAME), config.name)>>,
                                   FALSE, scanReverse)
            IN /\ fs' = r.fs
               /\ trace' = Append(trace, Step("setup_testing", r.raised = "none"))
               /\ IF r.raised = "none" THEN Proceed("testing") ELSE Fail(r.raised)
       ELSE /\ fs' = fs
            /\ trace' = Append(trace, Step("setup_testing", TRUE))
            /\ Proceed("testing")
    /\ UNCHANGED <<config, manifest, pre_process, post_process, waitResult>>
    /\ UNCHANGED callVars

\* run_post_processing, up to the start of the script.
RunPostProcessing ==
    /\ pc = "post"
    /\ LET info == get_init_info(fs, config, manifest)
       IN IF info.raised # "none"
          THEN /\ Fail(info.raised)
               /\ trace' = Append(trace, Step("get_init_info", FALSE))
               /\ UNCHANGED <<post_process, fs>>
          ELSE IF HasScript(info.post_processing)
          THEN \E written \in BOOLEAN :
                LET w == WriteScript(fs, PostLabel, info.post_processing, written)
                IN /\ fs' = w.fs
                   /\ IF w.raised = "none"
                      THEN /\ post_process' = "running"
                           /\ pc' = "post_wait"
                           /\ trace' = Append(trace, Step("post_launch", TRUE))
                           /\ UNCHANGED <<result, raised>>
                      ELSE /\ Fail(w.raised)
                           /\ trace' = Append(trace, Step("post_write", FALSE))
                           /\ UNCHANGED post_process
          ELSE /\ Proceed("post")
               /\ UNCHANGED <<post_process, trace, fs>>
    /\ UNCHANGED <<config, manifest, pre_process, waitResult>>
    /\ UNCHANGED callVars

\* The post-processing script ends: subprocess.run returns or raises,
\* inside initialize's try, and the finally clause unlinks the temporary file.
PostExit ==
    /\ pc = "post_wait"
    /\ \E outcome \in {"exit0", "nonzero", "oserror"}, wrote \in BOOLEAN :
        /\ (outcome # "nonzero") => wrote
        /\ post_process' = outcome
        /\ fs' = Unlink(ScriptEffect(fs, PostLabel, outcome, wrote), TempScript(PostLabel))
        /\ trace' = Append(trace, Step("post_exit", CheckExit(outcome)))
        /\ IF CheckExit(outcome) THEN Proceed("post")
           ELSE Fail(IF outcome = "nonzero" THEN "CalledProcessError" ELSE "OSError")
    /\ UNCHANGED <<config, manifest, pre_process, waitResult>>
    /\ UNCHANGED callVars

\* What wait_for_post_process_completed may return: success once the script
\* has exited 0, failure when it failed or has not ended within the timeout;
\* nothing is said of a template without a post-processing script.
wait_for_post_process_completed(process) ==
    CASE process = "exit0" -> {"True"}
      [] process \in {"nonzero", "oserror", "running"} -> {"False"}
      [] process = "none" -> {"True", "False"}

\* The caller waits for the post-processing script after initialize_project
\* returned True.
WaitForPostProcess ==
    /\ pc = "returned"
    /\ result = "True"
    /\ \E r \in wait_for_post_process_completed(post_process) : waitResult' = r
    /\ pc' = "waited"
    /\ UNCHANGED <<fs, config, manifest, result, raised, pre_process, post_process, trace>>
    /\ UNCHANGED callVars

-----------------------------------------------------------------------------
(* Running copy_template on its own                                        *)

\* No command line: cli.main is not running.
NoArgs == [type |-> <<>>, parameters |-> <<>>, config |-> <<>>, run_as |-> "none"]

\* No ProjectConfig has been built.
NoConfig ==
    [name |-> <<>>, version |-> <<>>, description |-> <<>>, author |-> <<>>,
     project_type |-> "python", output_path |-> <<>>,
     parameters |-> [k \in {} |-> BoolParam(FALSE)]]

\* No initialize_project call is under way.
NoCall ==
    /\ config = NoConfig
    /\ manifest = [state |-> "ok", pre |-> <<>>, post |-> <<>>]
    /\ pc = "none"
    /\ result = "none"
    /\ pre_process = "none"
    /\ post_process = "none"
    /\ trace = <<>>
    /\ waitResult = "none"
    /\ given = config
    /\ args = NoArgs
    /\ stdout = <<>>
    /\ exit_code = -1

CopyInitExtra(f, repl, hidden, rev, extra) ==
    /\ NoCall
    /\ extra_files = extra
    /\ results = <<>>
    /\ fs = f
    /\ fs0 = f
    /\ fs1 = f
    /\ src = TemplateRoot
    /\ dst = OutputRoot
    /\ replacements = repl
    /\ include_hidden = hidden
    /\ scanReverse = rev
    /\ runs = 0
    /\ raised = "none"
    /\ raised1 = "none"

CopyInitWith(f, repl, hidden, rev) == CopyInitExtra(f, repl, hidden, rev, NoExtraFiles)

\* Source trees of every shape, a few contents and maps.
CopyInit ==
    \E T \in SrcTrees, content \in FileContents, pre \in DstStates,
       repl \in TreeMaps, hidden \in BOOLEAN, rev \in BOOLEAN, present \in BOOLEAN :
        /\ present \/ (T = {} /\ repl = <<>> /\ ~hidden /\ ~rev)
        /\ CopyInitWith(
               (IF present THEN TreeFs(TemplateRoot, T, content) ELSE EmptyFs) @@ pre,
               repl, hidden, rev)

\* One text file of every content, every map.
SubstInit ==
    \E content \in Strings(ContentChars, MaxContentLen), repl \in SubstMaps :
        CopyInitWith(
            [p \in {TemplateRoot, TemplateRoot \o << <<"f">> >>} |->
                IF p = TemplateRoot THEN DirEntry ELSE FileEntry(content)],
            repl, FALSE, FALSE)

\* The first call of copy_template(src, dst, replacements, include_hidden).
FirstCopy ==
    /\ runs = 0
    /\ LET r == copy_template_call(fs, src, dst, replacements, include_hidden,
                                    extra_files, scanReverse)
       IN /\ fs' = r.fs
          /\ fs1' = r.fs
          /\ raised' = r.raised
          /\ raised1' = r.raised
    /\ runs' = 1
    /\ UNCHANGED <<scanReverse, src, dst, replacements, include_hidden, fs0, extra_files,
                   results>>
    /\ UNCHANGED orchVars

\* A second call with the same arguments.
SecondCopy ==
    /\ runs = 1
    /\ LET r == copy_template_call(fs, src, dst, replacements, include_hidden,
                                    extra_files, scanReverse)
       IN /\ fs' = r.fs
          /\ raised' = r.raised
    /\ runs' = 2
    /\ UNCHANGED <<scanReverse, src, dst, replacements, include_hidden, raised1, fs0, fs1,
                   extra_files, results>>
    /\ UNCHANGED orchVars

CopyNext == FirstCopy \/ SecondCopy

CopySpec == CopyInit /\ [][CopyNext]_vars

SubstNext == FirstCopy

\* A destination whose last name holds a token.
TokenDst == << <<"w">>, <<"$", "A">> >>

\* Maps whose value is a name, a path that climbs, a path that descends.
EscapeMaps == {
    <<>>,
    <<Entry(KeyA, <<"v">>)>>,
    <<Entry(KeyA, <<".", ".", "/", "x">>)>>,
    <<Entry(KeyA, <<"p", "/", "q">>)>> }

\* Trees of a plain file and of a file with a token in its name.
EscapeTrees ==
    {T \in SrcTrees : \A e \in T : e.kind = "file" /\ e.rel \in {<< <<"f">> >>, << <<"$", "A">> >>}}

\* A copy to a destination the caller chose, free before the copy.
EscapeInit ==
    \E T \in EscapeTrees, content \in FileContents, repl \in EscapeMaps,
       d \in {OutputRoot, TokenDst} :
        /\ NoCall
        /\ extra_files = NoExtraFiles
        /\ results = <<>>
        /\ fs = TreeFs(TemplateRoot, T, content)
        /\ fs0 = fs
        /\ fs1 = fs
        /\ src = TemplateRoot
        /\ dst = d
        /\ replacements = repl
        /\ include_hidden = FALSE
        /\ scanReverse = FALSE
        /\ runs = 0
        /\ raised = "none"
        /\ raised1 = "none"

EscapeNext == FirstCopy

EscapeSpec == EscapeInit /\ [][EscapeNext]_vars

\* Where the extra files of a call are kept, outside the template.
ExtraRoot == << <<"e">> >>

ExtraFile == ExtraRoot \o << <<"x">> >>

ExtraDir == ExtraRoot \o << <<"k">> >>

ExtraMissing == ExtraRoot \o << <<"n">> >>

\* An extra file, and an extra directory with a file in it.
ExtraFs(content) ==
    [p \in {ExtraRoot, ExtraFile, ExtraDir, ExtraDir \o << <<"g">> >>} |->
        IF p \in {ExtraRoot, ExtraDir} THEN DirEntry
        ELSE FileEntry(<<Name(p)[1]>> \o content)]

\* The extra_files lists calls are made with.
ExtraChoices ==
    {[passed |-> TRUE, paths |-> l] :
        l \in {<<>>, <<ExtraFile>>, <<ExtraDir>>, <<ExtraMissing>>, <<ExtraFile, ExtraMissing>>,
               <<ExtraDir, ExtraFile>>}}

\* Calls that pass extra_files, and calls that do not, to a free destination.
ExtraInit ==
    \E T \in SrcTrees, content \in FileContents, repl \in TreeMaps,
       extra \in ExtraChoices \cup {NoExtraFiles} :
        CopyInitExtra(TreeFs(TemplateRoot, T, content) @@ ExtraFs(content),
                      repl, FALSE, FALSE, extra)

ExtraNext == FirstCopy

ExtraSpec == ExtraInit /\ [][ExtraNext]_vars

SubstSpec == SubstInit /\ [][SubstNext]_vars

-----------------------------------------------------------------------------
(* One initialize_project call                                             *)

\* The project types calls are made for: templates that require parameters,
\* apply defaults, restrict the keys, take anything, and a type without a
\* registered template class.
CallTypes == {"react", "remix", "nextjs", "astro", "android", "vue", "python"}

\* The parameters calls are made with.
ParamChoices ==
    {[k \in K |-> IF k = "typescript" THEN BoolParam(FALSE) ELSE StrParam(<<"s", "c", "s", "s">>)] :
        K \in SUBSET {"typescript", "styling_solution", "integration_react", "other"}}

\* A script body that uses a parameter of the project.
ScriptText == <<"r", "u", "n", " ">> \o BraceToken(KAVIA_USE_TYPESCRIPT)

\* What config.yml holds: malformed text, or any choice of scripts.
ManifestChoices ==
    {[state |-> "malformed", pre |-> <<>>, post |-> <<>>]}
    \cup {[state |-> "ok", pre |-> a, post |-> b] : a \in {<<>>, ScriptText}, b \in {<<>>, ScriptText}}

\* The files of a template directory.
TemplateFiles(withManifest, withTestSetup) ==
    {[rel |-> << <<"f">> >>, kind |-> "file", tag |-> "1"],
     [rel |-> << <<".", "h">> >>, kind |-> "file", tag |-> "2"]}
    \cup (IF withManifest
          THEN {[rel |-> << ConfigYml >>, kind |-> "file", tag |-> "6"]} ELSE {})
    \cup (IF withTestSetup
          THEN {[rel |-> << TestSetup >>, kind |-> "dir", tag |-> "0"],
                [rel |-> << TestSetup, <<"g">> >>, kind |-> "file", tag |-> "3"]}
          ELSE {})

\* The content of the template's files: both token forms of the project name.
TemplateContent ==
    DollarToken(KAVIA_TEMPLATE_PROJECT_NAME) \o BraceToken(KAVIA_TEMPLATE_PROJECT_NAME)

\* The output path is free, or holds a directory where the template has a file.
OutputStates == {
    EmptyFs,
    [p \in Prefixes(OutputRoot) \cup {OutputRoot \o << <<"f">> >>} |-> DirEntry] }

\* The file system a call finds: the templates directory, with or without
\* the directory of the project type, and the output path.
CallFs(project_type, present, withManifest, withTestSetup, out) ==
    [p \in {MarkerDir, TempDir} \cup Prefixes(BasePath) |-> DirEntry]
    @@ (IF present
        THEN TreeFs(BasePath \o <<TypeValue[project_type]>>,
                    TemplateFiles(withManifest, withTestSetup), TemplateContent)
        ELSE EmptyFs)
    @@ out

Init ==
    \E project_type \in CallTypes, params \in ParamChoices, m \in ManifestChoices,
       present \in BOOLEAN, withManifest \in BOOLEAN, withTestSetup \in BOOLEAN,
       out \in OutputStates, rev \in BOOLEAN :
        /\ present \/ (~withManifest /\ ~withTestSetup)
        /\ withManifest \/ m = [state |-> "ok", pre |-> <<>>, post |-> <<>>]
        /\ config = [name |-> <<"a", "p", "p">>, version |-> <<"1", ".", "0">>, description |-> <<>>,
                     author |-> <<"m", "e">>, project_type |-> project_type,
                     output_path |-> OutputRoot, parameters |-> params]
        /\ manifest = m
        /\ fs = CallFs(project_type, present, withManifest, withTestSetup, out)
        /\ fs0 = fs
        /\ fs1 = fs
        /\ scanReverse = rev
        /\ src = <<>>
        /\ dst = <<>>
        /\ replacements = <<>>
        /\ include_hidden = FALSE
        /\ runs = 0
        /\ raised = "none"
        /\ raised1 = "none"
        /\ pc = "call"
        /\ result = "none"
        /\ pre_process = "none"
        /\ post_process = "none"
        /\ trace = <<>>
        /\ waitResult = "none"
        /\ extra_files = NoExtraFiles
        /\ results = <<>>
        /\ given = config
        /\ args = NoArgs
        /\ stdout = <<>>
        /\ exit_code = -1

Next ==
    \/ CreateTemplate
    \/ ValidateParameters
    \/ RunPreProcessing
    \/ PreExit
    \/ GenerateStructure
    \/ SetupTesting
    \/ RunPostProcessing
    \/ PostExit
    \/ WaitForPostProcess

Spec == Init /\ [][Next]_vars

-----------------------------------------------------------------------------
(* cli.main                                                                *)

\* What the JSON file of --config holds.
ConfigFile ==
    [name |-> <<"c", "f", "g">>, version |-> <<"2", ".", "0">>, description |-> <<"d">>,
     author |-> <<"y", "o", "u">>, project_type |-> <<"a", "s", "t", "r", "o">>,
     output_path |-> PathStr(OutputRoot),
     parameters |-> [k \in {"typescript"} |-> BoolParam(TRUE)]]

\* ProjectInitializer.load_config: the ProjectConfig of a JSON file.
load_config(data) ==
    LET t == from_string(data.project_type)
    IN IF t.raised # "none"
       THEN [raised |-> "ValueError", config |-> NoConfig]
       ELSE [raised |-> "none",
             config |-> [name |-> data.name, version |-> data.version,
                         description |-> data.description, author |-> data.author,
                         project_type |-> t.type, output_path |-> ParsePath(data.output_path),
                         parameters |-> data.parameters]]

\* The fields of the TemplateInitInfo dataclass.
TemplateInitInfoFields ==
    {"build_cmd", "env_config", "init_files", "init_minimal", "run_tool", "test_tool",
     "init_style", "linter_script", "pre_processing", "post_processing"}

\* The attributes of init_info that template_init_info_to_dict reads.
ReadFields ==
    {"configure_environment", "build_cmd", "install_dependencies", "env_config",
     "init_files", "init_minimal", "openapi_generation", "run_tool", "test_tool",
     "init_style", "linter_script", "pre_processing", "post_processing"}

\* template_init_info_to_dict: reading an attribute the dataclass does not
\* have raises AttributeError.
template_init_info_to_dict ==
    IF ReadFields \subseteq TemplateInitInfoFields THEN "none" ELSE "AttributeError"

\* output_json: the document printed and the value returned; the document is
\* built, template_config included, before anything is printed.
output_json(success, message, with_info) ==
    IF with_info /\ template_init_info_to_dict # "none"
    THEN [raised |-> template_init_info_to_dict,
          doc |-> [success |-> success, message |-> message, template_config |-> FALSE],
          ret |-> 1]
    ELSE [raised |-> "none",
          doc |-> [success |-> success, message |-> message, template_config |-> with_info],
          ret |-> IF success THEN 0 ELSE 1]

\* str(e) of the exceptions main can catch.
StrOf(e, cfg) ==
    CASE e = "ValueError" -> <<"-", "-", "-", ">", " ", "N", "o", " ", "t", "e", "m", "p", "l", "a", "t", "e", " ", "r", "e", "g", "i", "s", "t", "e", "r", "e", "d", " ", "f", "o", "r", " ">> \o TypeValue[cfg.project_type]
      [] e = "FileNotFoundError" -> <<"T", "e", "m", "p", "l", "a", "t", "e", " ", "n", "o", "t", " ", "f", "o", "u", "n", "d", " ", "f", "o", "r", " ">> \o TypeValue[cfg.project_type]
      [] e = "ManifestNotFound" ->
            <<"C", "o", "n", "f", "i", "g", "u", "r", "a", "t", "i", "o", "n", " ", "f", "i", "l", "e", " ", "n", "o", "t", " ", "f", "o", "u", "n", "d", " ", "a", "t", " ">> \o PathStr(TemplatePath(cfg) \o <<ConfigYml>>)
      [] e = "KeyError" -> <<"'", "b", "u", "i", "l", "d", "_", "c", "m", "d", "'">>
      [] e = "AttributeError" -> <<"'", "T", "e", "m", "p", "l", "a", "t", "e", "I", "n", "i", "t", "I", "n", "f", "o", "'", " ", "o", "b", "j", "e", "c", "t", " ", "h", "a", "s", " ", "n", "o", " ", "a", "t", "t", "r", "i", "b", "u", "t", "e", " ", "'", "c", "o", "n", "f", "i", "g", "u", "r", "e", "_", "e", "n", "v", "i", "r", "o", "n", "m", "e", "n", "t", "'">>
      [] OTHER -> <<>>

ErrorPrefix == <<"E", "r", "r", "o", "r", ":", " ">>

InitializedMessage == <<"P", "r", "o", "j", "e", "c", "t", " ", "i", "n", "i", "t", "i", "a", "l", "i", "z", "e", "d", " ", "s", "u", "c", "c", "e", "s", "s", "f", "u", "l", "l", "y", "!">>

FailedMessage == <<"P", "r", "o", "j", "e", "c", "t", " ", "i", "n", "i", "t", "i", "a", "l", "i", "z", "a", "t", "i", "o", "n", " ", "f", "a", "i", "l", "e", "d">>

\* The exit status of the process: a console-script wrapper passes main's
\* return value to sys.exit; the `if __name__ == '__main__': main()` line
\* drops it.
ExitStatus(run_as, ret) == IF run_as = "console_script" THEN ret ELSE 0

\* print the document and return.
Emit(o) ==
    /\ stdout' = Append(stdout, o.doc)
    /\ exit_code' = ExitStatus(args.run_as, o.ret)
    /\ pc' = "exited"

\* except Exception as e: return output_json(False, f"Error: {str(e)}")
CliExcept(text) == Emit(output_json(FALSE, ErrorPrefix \o text, FALSE))

\* config = create_project_config(args)
CliCreateConfig ==
    /\ pc = "cli"
    /\ LET t == from_string(args.type)
       IN IF t.raised # "none"
          THEN /\ CliExcept(t.message)
               /\ UNCHANGED <<config, given>>
          ELSE /\ config' = [name |-> <<"a", "p", "p">>, version |-> <<"0", ".", "1", ".", "0">>, description |-> <<>>,
                             author |-> <<"m", "e">>, project_type |-> t.type,
                             output_path |-> OutputRoot,
                             parameters |-> parse_parameters(args.parameters)]
               /\ given' = config'
               /\ pc' = "cli_template"
               /\ UNCHANGED <<stdout, exit_code>>
    /\ UNCHANGED <<manifest, result, pre_process, post_process, trace, waitResult, args>>
    /\ UNCHANGED copyVars

\* template = create_template(config); init_info = template.get_init_info()
CliCreateTemplate ==
    /\ pc = "cli_template"
    /\ LET e == create_template(fs, config)
           info == get_init_info(fs, config, manifest)
       IN IF e # "none"
          THEN CliExcept(StrOf(e, config)) /\ UNCHANGED results
          ELSE IF info.raised # "none"
          THEN /\ CliExcept(StrOf(IF info.raised = "FileNotFoundError"
                                  THEN "ManifestNotFound" ELSE info.raised, config))
               /\ UNCHANGED results
          ELSE /\ pc' = "call"
               /\ results' = Append(results, [call |-> "get_init_info", config |-> config,
                                              map |-> <<>>, info |-> info])
               /\ UNCHANGED <<stdout, exit_code>>
    /\ UNCHANGED <<config, given, manifest, result, pre_process, post_process, trace,
                   waitResult, args>>
    /\ UNCHANGED <<fs, scanReverse, src, dst, replacements, include_hidden, runs, raised,
                   raised1, fs0, fs1, extra_files>>

\* success = initializer.initialize_project(config) has returned: the
\* document with the template's configuration is built and printed, or the
\* except clause prints its own.
CliOutput ==
    /\ pc = "returned"
    /\ args.run_as # "none"
    /\ IF result = "raised"
       THEN CliExcept(StrOf(raised, config))
       ELSE LET o == output_json(result = "True",
                                 IF result = "True" THEN InitializedMessage ELSE FailedMessage,
                                 TRUE)
            IN IF o.raised # "none" THEN CliExcept(StrOf(o.raised, config)) ELSE Emit(o)
    /\ UNCHANGED <<config, given, manifest, result, pre_process, post_process, trace,
                   waitResult, args>>
    /\ UNCHANGED copyVars

\* The --type texts the command line is given.
TypeTexts == {<<"r", "e", "a", "c", "t">>, <<"n", "e", "x", "t", "j", "s">>, <<"V", "u", "e">>, <<"a", "s", "t", "r", "o">>, <<"p", "y", "t", "h", "o", "n">>, <<"n", "o", "t", "-", "a", "-", "r", "e", "a", "l", "-", "t", "y", "p", "e">>, <<"d", "j", "a", "n", "g", "o">>}

\* The --parameters texts, by their comma-separated pieces.
ParameterTexts == {
    <<>>,
    <<Piece(KeyText.typescript, <<"T", "R", "U", "E">>), Piece(<<" ", "s", "t", "y", "l", "i", "n", "g", "_", "s", "o", "l", "u", "t", "i", "o", "n">>, <<"s", "c", "s", "s">>)>>,
    <<BarePiece(KeyText.typescript), Piece(KeyText.other, <<"0", "7">>)>> }

CliInit ==
    \E type \in TypeTexts, parameters \in ParameterTexts,
       run_as \in {"console_script", "__main__"}, m \in ManifestChoices,
       present \in BOOLEAN, withManifest \in BOOLEAN, out \in OutputStates,
       config_file \in {<<>>, <<ConfigFile>>} :
        /\ present \/ ~withManifest
        /\ withManifest \/ m = [state |-> "ok", pre |-> <<>>, post |-> <<>>]
        /\ args = [type |-> type, parameters |-> parameters, config |-> config_file,
                   run_as |-> run_as]
        /\ config = NoConfig
        /\ given = NoConfig
        /\ manifest = m
        /\ fs = CallFs(IF from_string(type).raised = "none" THEN from_string(type).type
                       ELSE "react",
                       present, withManifest, FALSE, out)
        /\ fs0 = fs
        /\ fs1 = fs
        /\ scanReverse = FALSE
        /\ src = <<>>
        /\ dst = <<>>
        /\ replacements = <<>>
        /\ include_hidden = FALSE
        /\ extra_files = NoExtraFiles
        /\ results = <<>>
        /\ runs = 0
        /\ raised = "none"
        /\ raised1 = "none"
        /\ pc = "cli"
        /\ result = "none"
        /\ pre_process = "none"
        /\ post_process = "none"
        /\ trace = <<>>
        /\ waitResult = "none"
        /\ stdout = <<>>
        /\ exit_code = -1

CliNext ==
    \/ CliCreateConfig
    \/ CliCreateTemplate
    \/ CreateTemplate
    \/ ValidateParameters
    \/ RunPreProcessing
    \/ PreExit
    \/ GenerateStructure
    \/ SetupTesting
    \/ RunPostProcessing
    \/ PostExit
    \/ CliOutput

CliSpec == CliInit /\ [][CliNext]_vars

-----------------------------------------------------------------------------
(* Calls on a ProjectConfig: the replacement map and the init info         *)

\* How many results of calls are kept.
MaxCalls == 2

\* The values the typescript parameter is given: a bool, an int, a float and
\* a string.
TypescriptValues ==
    {BoolParam(TRUE), BoolParam(FALSE), IntParam(<<"1">>), FloatParam(<<"1", ".", "5">>),
     StrParam(<<"Y", "e", "s">>)}

\* Parameters of primitive values, with and without the typescript key.
ConfigParams ==
    {[k \in K |-> IF k = "typescript" THEN v ELSE StrParam(<<"s", "c", "s", "s">>)] :
        K \in SUBSET {"typescript", "styling_solution"}, v \in TypescriptValues}

\* Path("out"): an output path given relative to the working directory.
RelativeOutput == <<CurDir, <<"o", "u", "t">> >>

\* The result of a call that does not return an init info.
NoInfo == [raised |-> "none", pre_processing |-> <<>>, post_processing |-> <<>>]

\* What the calls on a ProjectConfig leave alone.
configFrame ==
    <<fs, scanReverse, src, dst, replacements, include_hidden, runs, raised, raised1, fs0, fs1,
      extra_files, manifest, pc, result, pre_process, post_process, trace, waitResult,
      given, args, stdout, exit_code>>

\* config.get_replaceable_parameters()
GetReplaceableParameters ==
    /\ pc = "config"
    /\ Len(results) < MaxCalls
    /\ results' = Append(results, [call |-> "get_replaceable_parameters", config |-> config,
                                   map |-> get_replaceable_parameters(config), info |-> NoInfo])
    /\ UNCHANGED config
    /\ UNCHANGED configFrame

\* template.get_init_info()
GetInitInfo ==
    /\ pc = "config"
    /\ Len(results) < MaxCalls
    /\ results' = Append(results, [call |-> "get_init_info", config |-> config,
                                   map |-> <<>>, info |-> get_init_info(fs, config, manifest)])
    /\ UNCHANGED config
    /\ UNCHANGED configFrame

\* config.parameters['typescript'] = value, by the holder of the config.
SetParameter ==
    /\ pc = "config"
    /\ \E v \in {BoolParam(FALSE), StrParam(<<"Y", "e", "s">>)} :
        LET params == config.parameters
        IN config' = [config EXCEPT !.parameters =
                         [k \in DOMAIN params \cup {"typescript"} |->
                             IF k = "typescript" THEN v ELSE params[k]]]
    /\ UNCHANGED results
    /\ UNCHANGED configFrame

\* template.validate_parameters(), which may add defaults to the parameters.
CallValidateParameters ==
    /\ pc = "config"
    /\ config' = [config EXCEPT !.parameters =
                     validate_parameters(config.project_type, config.parameters).params]
    /\ UNCHANGED results
    /\ UNCHANGED configFrame

\* A ProjectConfig of either kind of output path, and its template with a
\* manifest whose scripts use a parameter.
ConfigInit ==
    \E project_type \in {"nextjs"}, params \in ConfigParams,
       out \in {OutputRoot, RelativeOutput} :
        /\ config = [name |-> <<"a", "p", "p">>, version |-> <<"1", ".", "0">>, description |-> <<>>,
                     author |-> <<"m", "e">>, project_type |-> project_type,
                     output_path |-> out, parameters |-> params]
        /\ given = config
        /\ manifest = [state |-> "ok", pre |-> ScriptText, post |-> ScriptText]
        /\ fs = CallFs(project_type, TRUE, TRUE, FALSE, EmptyFs)
        /\ fs0 = fs
        /\ fs1 = fs
        /\ scanReverse = FALSE
        /\ src = <<>>
        /\ dst = <<>>
        /\ replacements = <<>>
        /\ include_hidden = FALSE
        /\ extra_files = NoExtraFiles
        /\ results = <<>>
        /\ runs = 0
        /\ raised = "none"
        /\ raised1 = "none"
        /\ pc = "config"
        /\ result = "none"
        /\ pre_process = "none"
        /\ post_process = "none"
        /\ trace = <<>>
        /\ waitResult = "none"
        /\ args = NoArgs
        /\ stdout = <<>>
        /\ exit_code = -1

ConfigNext ==
    \/ GetReplaceableParameters
    \/ GetInitInfo
    \/ SetParameter
    \/ CallValidateParameters

ConfigSpec == ConfigInit /\ [][ConfigNext]_vars

-----------------------------------------------------------------------------
(* Claims about initialize_project (Spec)                                  *)

\* The manifest declares a pre-processing, a post-processing script.
PreDeclared == manifest.state = "ok" /\ manifest.pre # <<>>

PostDeclared == manifest.state = "ok" /\ manifest.post # <<>>

\* Nothing at or under the first component of the output path has been
\* created or changed since the call began.
OutputUntouched ==
    \A p \in DOMAIN fs :
        p[1] = OutputRoot[1] => (p \in DOMAIN fs0 /\ fs[p] = fs0[p])

\* The call has ended, by a return or by an exception.
Returned == pc \in {"returned", "waited"}

Did(name, ok) == \E i \in 1..Len(trace) : trace[i] = Step(name, ok)

\* The position of a trace entry in the order of initialize.
Phase(name) ==
    CASE name = "validate_parameters" -> 0
      [] name \in {"pre_write", "pre_launch", "pre_exit"} -> 1
      [] name = "generate_structure" -> 2
      [] name = "setup_testing" -> 3
      [] name \in {"post_write", "post_launch", "post_exit"} -> 4
      [] name = "get_init_info" -> 5

C3_PhasesInOrder ==
    /\ (PreDeclared /\ ~OutputUntouched) => pre_process = "exit0"
    /\ post_process # "none" =>
          (Did("generate_structure", TRUE) /\ pc \notin {"pre", "pre_wait", "generate"})
    /\ pre_process = "running" <=> pc = "pre_wait"
    /\ post_process = "running" <=> pc = "post_wait"
    /\ pre_process = "running" => (OutputUntouched /\ post_process = "none")
    /\ \A i, j \in 1..Len(trace) :
          (i < j /\ trace[j].step # "get_init_info") =>
              Phase(trace[i].step) < Phase(trace[j].step)
                 \/ (trace[i].step = "pre_launch" /\ trace[j].step = "pre_exit")
                 \/ (trace[i].step = "post_launch" /\ trace[j].step = "post_exit")

\* A call that ran both scripts around a generation that wrote the output.
C3_Witness ==
    /\ Returned
    /\ result = "True"
    /\ pre_process = "exit0"
    /\ post_process = "exit0"
    /\ IsFile(fs, OutputRoot \o << <<"f">> >>)
    /\ ~Exists(fs0, OutputRoot)

\* The steps C4 is about.
C4Steps == {"validate_parameters", "pre_exit", "generate_structure", "setup_testing"}

\* C4: a validation that fails, a pre-processing script that exits non-zero
\* or a copy that raises is the last step of the call, which returns False;
\* after a pre-processing script that exited non-zero the output path holds
\* nothing it did not hold before and no post-processing script has run.
C4_FailureAbsorbing ==
    /\ \A i \in 1..Len(trace) :
          (trace[i].step \in C4Steps /\ ~trace[i].ok) =>
              (i = Len(trace) /\ pc = "returned" /\ result = "False")
    /\ pre_process = "nonzero" =>
          /\ pc = "returned"
          /\ result = "False"
          /\ OutputUntouched
          /\ post_process = "none"
          /\ ~Did("generate_structure", TRUE)
          /\ ~Did("generate_structure", FALSE)
          /\ ~Did("setup_testing", TRUE)

\* A pre-processing script exited non-zero after it had written its marker.
C4_Witness ==
    /\ pc = "returned"
    /\ pre_process = "nonzero"
    /\ IsFile(fs, Marker(PreLabel))
    /\ result = "False"

\* A required parameter of React or Remix is absent, and the template exists.
MissingRequired ==
    /\ config.project_type \in {"react", "remix"}
    /\ ~(RequiredParams \subseteq DOMAIN config.parameters)
    /\ Exists(fs0, TemplatePath(config))

\* C5: when a required parameter of a React or Remix template is absent, the
\* call returns False, runs no script and leaves the file system as it was.
C5_MissingParameterFails ==
    MissingRequired =>
        /\ pc \in {"call", "validate", "returned"}
        /\ pc = "returned" => (result = "False" /\ raised = "ValueError")
        /\ pre_process = "none"
        /\ post_process = "none"
        /\ fs = fs0

\* A call for a template with a script and a free output path ended on the
\* missing parameter.
C5_Witness ==
    /\ MissingRequired
    /\ pc = "returned"
    /\ result = "False"
    /\ PreDeclared
    /\ ~Exists(fs, OutputRoot)
    /\ "typescript" \in DOMAIN config.parameters

\* C16 as stated: once _run_processing_script has returned or raised, the
\* temporary script file does not exist, whatever the exit path.
C16_TempScriptRemoved ==
    pc \notin {"pre_wait", "post_wait"} =>
        (~Exists(fs, TempScript(PreLabel)) /\ ~Exists(fs, TempScript(PostLabel)))

\* initialize has called validate_parameters.
Validated == trace # <<>> /\ trace[1].step = "validate_parameters"

\* C19: for a NextJS template, validate_parameters returns True and leaves
\* config.parameters with typescript and styling_solution: a key the caller
\* passed keeps its value, an absent one has its default (True, 'css'), and
\* no other key is added or removed. Before the call the parameters are the
\* caller's.
C19_NextJSDefaults ==
    (config.project_type = "nextjs" /\ pc \notin {"none", "cli", "cli_template"}) =>
        IF Validated
        THEN /\ trace[1].ok
             /\ DOMAIN config.parameters = DOMAIN given.parameters \cup RequiredParams
             /\ \A k \in DOMAIN given.parameters : config.parameters[k] = given.parameters[k]
             /\ "typescript" \notin DOMAIN given.parameters =>
                   config.parameters["typescript"] = BoolParam(TRUE)
             /\ "styling_solution" \notin DOMAIN given.parameters =>
                   config.parameters["styling_solution"] = StrParam(<<"c", "s", "s">>)
        ELSE config = given

\* The caller passed typescript = False and no styling_solution: the first is
\* kept, the second has its default.
C19_Witness ==
    /\ config.project_type = "nextjs"
    /\ Validated
    /\ DOMAIN given.parameters = {"typescript", "other"}
    /\ config.parameters["typescript"] = BoolParam(FALSE)
    /\ config.parameters["styling_solution"] = StrParam(<<"c", "s", "s">>)

\* C20: for an Astro template, validate_parameters accepts the configuration
\* exactly when every key of the parameters is in the allow-list (no key at
\* all included); when it does not, initialize_project returns False, with
\* nothing run or copied.
C20_AstroAllowList ==
    (config.project_type = "astro" /\ Validated) =>
        /\ trace[1].ok <=> (DOMAIN given.parameters \subseteq AllowedParams)
        /\ DOMAIN given.parameters = {} => trace[1].ok
        /\ ~(DOMAIN given.parameters \subseteq AllowedParams) =>
              /\ pc = "returned"
              /\ result = "False"
              /\ Len(trace) = 1
              /\ fs = fs0

\* An Astro call with an allowed and a foreign key has returned False.
C20_Witness ==
    /\ config.project_type = "astro"
    /\ Validated
    /\ DOMAIN given.parameters = {"integration_react", "other"}
    /\ pc = "returned"
    /\ result = "False"

\* The call is for a registered template whose directory exists and holds no
\* config.yml.
ManifestMissing ==
    /\ config.project_type \in Registered
    /\ Exists(fs0, TemplatePath(config))
    /\ ~Exists(fs0, TemplatePath(config) \o <<ConfigYml>>)

\* C21: when the template directory exists without a manifest, the call
\* never reaches generate_structure, the output path holds nothing it did not
\* hold before, and the call returns False.
C21_MissingManifestFails ==
    ManifestMissing =>
        /\ pc \in {"call", "validate", "pre", "returned"}
        /\ OutputUntouched
        /\ ~Did("generate_structure", TRUE) /\ ~Did("generate_structure", FALSE)
        /\ pc = "returned" => result = "False"

\* An Android call passed validation and ended on the missing manifest.
C21_Witness ==
    /\ ManifestMissing
    /\ config.project_type = "android"
    /\ pc = "returned"
    /\ result = "False"
    /\ raised = "FileNotFoundError"
    /\ trace = <<Step("validate_parameters", TRUE), Step("get_init_info", FALSE)>>

\* The file of test-setup in the template, and where setup_testing puts it.
TestSetupFile == TemplatePath(config) \o <<TestSetup, <<"g">> >>

TestFile == config.output_path \o <<TestDir, <<"g">> >>

\* C25 as stated: once setup_testing of a React or Remix template has
\* returned, the output has no test directory when the template has no
\* test-setup directory; when it has one, its file is in the test directory
\* of the output with no token of the project name left, each replaced by the
\* name.
C25_TestSetupSubstituted ==
    (config.project_type \in {"react", "remix"} /\ Did("setup_testing", TRUE)) =>
        IF Exists(fs0, TemplatePath(config) \o <<TestSetup>>)
        THEN /\ IsFile(fs, TestFile)
             /\ ~Contains(fs[TestFile].data, DollarToken(KAVIA_TEMPLATE_PROJECT_NAME))
             /\ ~Contains(fs[TestFile].data, BraceToken(KAVIA_TEMPLATE_PROJECT_NAME))
             /\ fs[TestFile].data = <<"3">> \o config.name \o config.name
        ELSE ~Exists(fs, config.output_path \o <<TestDir>>)

\* C6 as stated: for every ProjectConfig, initialize_project returns True or
\* False and lets no exception out.
C6_AlwaysBoolean == Returned => result \in {"True", "False"}

-----------------------------------------------------------------------------
(* Claims about the replacement map and the init info (ConfigSpec)         *)

\* The value a replacement map has for a key.
MapValue(map, key) ==
    (CHOOSE i \in 1..Len(map) : map[i].key = key) \* the keys of a dict are distinct

\* The maps get_replaceable_parameters has returned, with their configs.
MapResults == {i \in 1..Len(results) : results[i].call = "get_replaceable_parameters"}

\* C22 as stated: in every map returned for a config of primitive parameter
\* values, KAVIA_USE_TYPESCRIPT is "true" or "false", and "false" when the
\* typescript parameter is absent.
C22_TypescriptFlagIsBoolean ==
    \A i \in MapResults :
        LET flag == results[i].map[MapValue(results[i].map, KAVIA_USE_TYPESCRIPT)].value
        IN /\ flag \in {<<"t", "r", "u", "e">>, <<"f", "a", "l", "s", "e">>}
           /\ "typescript" \notin DOMAIN results[i].config.parameters =>
                 flag = <<"f", "a", "l", "s", "e">>

\* C23 as stated: in every map returned, KAVIA_PROJECT_DIRECTORY is an
\* absolute path text, also for a config whose output path is relative.
C23_DirectoryIsAbsolute ==
    \A i \in MapResults :
        LET dir == results[i].map[MapValue(results[i].map, KAVIA_PROJECT_DIRECTORY)].value
        IN dir # <<>> /\ Head(dir) = Sep

\* The text of the typescript flag and of the styling solution that the
\* parameters of a config stand for.
FlagOf(cfg) == Lower(PyStr(Get(cfg.parameters, "typescript", BoolParam(FALSE))))

StylingOf(cfg) == PyStr(Get(cfg.parameters, "styling_solution", StrParam(<<"c", "s", "s">>)))

\* C24: every result of get_replaceable_parameters and of get_init_info is
\* that of the config as it was when the call was made: the flag and the
\* styling solution of the map, and the flag in the scripts of the init info,
\* are those of the parameters then, whatever earlier calls returned.
C24_NothingCached ==
    \A i \in 1..Len(results) :
        LET r == results[i]
        IN IF r.call = "get_replaceable_parameters"
           THEN /\ r.map[MapValue(r.map, KAVIA_USE_TYPESCRIPT)].value = FlagOf(r.config)
                /\ r.map[MapValue(r.map, KAVIA_STYLING_SOLUTION)].value = StylingOf(r.config)
           ELSE /\ r.info.raised = "none"
                /\ r.info.pre_processing = <<"r", "u", "n", " ">> \o FlagOf(r.config)
                /\ r.info.post_processing = <<"r", "u", "n", " ">> \o FlagOf(r.config)

\* A map was returned for a NextJS config without the typescript key, then
\* validate_parameters added the default, and the init info read after it
\* has the default in its script.
C24_Witness ==
    /\ Len(results) = 2
    /\ config.project_type = "nextjs"
    /\ results[1].call = "get_replaceable_parameters"
    /\ "typescript" \notin DOMAIN results[1].config.parameters
    /\ results[1].map[MapValue(results[1].map, KAVIA_USE_TYPESCRIPT)].value = <<"f", "a", "l", "s", "e">>
    /\ results[2].call = "get_init_info"
    /\ "typescript" \in DOMAIN results[2].config.parameters
    /\ results[2].config.parameters["typescript"] = BoolParam(TRUE)
    /\ results[2].info.pre_processing = <<"r", "u", "n", " ", "t", "r", "u", "e">>

-----------------------------------------------------------------------------
(* Claims about the content substitution (SubstSpec)                       *)

\* str.count(old): the non-overlapping occurrences of old in s.
RECURSIVE CountOcc(_, _)
CountOcc(s, old) ==
    IF Len(s) < Len(old) \/ Len(old) = 0 THEN 0
    ELSE IF SubSeq(s, 1, Len(old)) = old
         THEN 1 + CountOcc(SubSeq(s, Len(old) + 1, Len(s)), old)
         ELSE CountOcc(Tail(s), old)

SubstSource == TemplateRoot \o << <<"f">> >>

SubstOutput == OutputRoot \o << <<"f">> >>

SourceText == fs0[SubstSource].data

Entries(repl) == {repl[i] : i \in 1..Len(repl)}

HasToken(text, key) == Contains(text, DollarToken(key)) \/ Contains(text, BraceToken(key))

\* The characters the tokens of a map are made of.
TokenChars(repl) == {"$", "{", "}"} \cup UNION {{e.key[i] : i \in 1..Len(e.key)} : e \in Entries(repl)}

\* Every value is non-empty and shares no character with a token.
PlainMap(repl) ==
    \A e \in Entries(repl) :
        e.value # <<>> /\ \A i \in 1..Len(e.value) : e.value[i] \notin TokenChars(repl)

\* No key is a prefix of another key.
PrefixFree(repl) ==
    \A i, j \in 1..Len(repl) : i # j => ~StartsWith(repl[i].key, repl[j].key)

SubstDone == runs = 1 /\ raised = "none" /\ IsFile(fs, SubstOutput)

ReverseOrder(repl) == [i \in 1..Len(repl) |-> repl[Len(repl) + 1 - i]]

\* C27 as stated: the file written is what the substitution gives when the
\* keys of the map are iterated in the opposite order as well, for every
\* map, values that hold a token included.
C27_OrderIndependent ==
    SubstDone =>
        fs[SubstOutput].data = SubstituteContent(SourceText, ReverseOrder(replacements))

-----------------------------------------------------------------------------
(* Claims about the copy of a tree (CopySpec)                              *)

\* The regular files of the source tree.
SrcFiles == {p \in DOMAIN fs0 : IsUnder(p, src) /\ IsFile(fs0, p)}

SrcDirs == {p \in DOMAIN fs0 : IsUnder(p, src) /\ IsDir(fs0, p)}

Dest(p) == FileDestination(p, src, dst, replacements)

\* What the destination of a source file is to hold.
ExpectedData(bytes) ==
    IF Decodable(bytes)
    THEN SubstituteContent(TranslateNewlines(bytes), replacements)
    ELSE bytes

\* The source file p is in the output.
Present(p) == IsFile(fs, Dest(p)) /\ fs[Dest(p)].data = ExpectedData(fs0[p].data)

\* No other source file has the destination of p.
OwnDestination(p) == \A q \in SrcFiles \ {p} : Dest(q) # Dest(p)

\* p lies in a hidden directory of the source tree.
InHiddenDir(p) ==
    \E i \in (Len(src) + 1)..(Len(p) - 1) : IsHiddenName(p[i])

CopiedOnce == runs = 1 /\ raised = "none"

\* C8: after a copy that succeeded, a hidden file of the source is in the
\* output exactly when include_hidden is set; a hidden directory is made in
\* the output and the files in it that are not hidden (nor the manifest, nor
\* dunder-named) are in the output for both values of include_hidden.
C8_HiddenFilesIffIncluded ==
    CopiedOnce =>
        /\ \A p \in SrcFiles :
              (IsHiddenName(Name(p)) /\ OwnDestination(p)) => (Present(p) <=> include_hidden)
        /\ \A p \in SrcFiles :
              (/\ InHiddenDir(p)
               /\ ~IsHiddenName(Name(p))
               /\ Name(p) # ConfigYml
               /\ ~IsDunder(Name(p))
               /\ OwnDestination(p)) => Present(p)
        /\ \A p \in SrcDirs :
              IsHiddenName(Name(p)) => IsDir(fs, dst \o RelativeTo(p, src))

\* A tree with a hidden file and a hidden directory holding a file was
\* copied without the hidden files.
C8_Witness ==
    /\ CopiedOnce
    /\ ~include_hidden
    /\ \E p \in SrcFiles : IsHiddenName(Name(p)) /\ ~InHiddenDir(p) /\ ~Present(p)
    /\ \E p \in SrcFiles : InHiddenDir(p) /\ ~IsHiddenName(Name(p)) /\ Present(p)

\* C9: a source file whose bytes do not decode never makes the copy raise
\* UnicodeDecodeError, and after a copy that succeeded its destination holds
\* the very bytes of the source, token-like sequences included.
C9_BinaryVerbatim ==
    runs = 1 =>
        /\ raised # "UnicodeDecodeError"
        /\ raised = "none" =>
              \A p \in SrcFiles :
                  (/\ ~Decodable(fs0[p].data)
                   /\ ~Skipped(fs0, p, include_hidden)
                   /\ OwnDestination(p))
                  => (IsFile(fs, Dest(p)) /\ fs[Dest(p)].data = fs0[p].data)

\* A binary file holding the bytes of a token of the map was copied next to
\* a text file.
C9_Witness ==
    /\ CopiedOnce
    /\ \E e \in Entries(replacements) :
          \E p \in SrcFiles :
              /\ ~Decodable(fs0[p].data)
              /\ Contains(fs0[p].data, DollarToken(e.key))
              /\ IsFile(fs, Dest(p))
              /\ fs[Dest(p)].data = fs0[p].data
    /\ \E p \in SrcFiles : Decodable(fs0[p].data) /\ Present(p)

\* C10: a second run with the same arguments leaves the file system as the
\* first run left it, and ends as the first run ended (it succeeds when the
\* first did).
C10_Idempotent == runs = 2 => (fs = fs1 /\ raised = raised1)

\* A second run succeeded on a destination the first run had populated over
\* files of an earlier copy.
C10_Witness ==
    /\ runs = 2
    /\ raised = "none"
    /\ IsFile(fs0, OutputRoot \o << <<"f">> >>)
    /\ \E p \in SrcFiles : Present(p) /\ Dest(p) = OutputRoot \o << <<"f">> >>
    /\ Cardinality(SrcFiles) >= 2

\* What the copy created: the entries at or under dst that were not there.
Created == {p \in DOMAIN fs \ DOMAIN fs0 : p = dst \/ IsUnder(p, dst)}

\* A component of p holds the token "$KEY" of a key of the map.
HasTokenInName(p) ==
    \E e \in Entries(replacements), i \in 1..Len(p) : Contains(p[i], DollarToken(e.key))

\* p lies in a source directory whose name holds a token of the map.
InTokenDir(p) ==
    \E e \in Entries(replacements), i \in (Len(src) + 1)..(Len(p) - 1) :
        Contains(p[i], DollarToken(e.key))

\* C11 as stated: after a copy that succeeded, no entry the copy created has
\* the token "$KEY" of a key of the map in a component of its path, and every
\* file of a source directory with such a token in its name is in the output
\* under the substituted name.
C11_NoTokenInCreatedPaths ==
    CopiedOnce =>
        /\ \A p \in Created : ~HasTokenInName(p)
        /\ \A p \in SrcFiles :
              (InTokenDir(p) /\ ~Skipped(fs0, p, include_hidden) /\ OwnDestination(p))
                  => Present(p)

\* p lies in a source directory the name filter skips.
InSkippedDir(p) ==
    \E i \in (Len(src) + 1)..(Len(p) - 1) : p[i] = ConfigYml \/ IsDunder(p[i])

\* C12 as stated: after a copy that succeeded, no entry the copy created is
\* named config.yml or has a name that starts and ends with "__", at any
\* depth and for both values of include_hidden.
C12_NoManifestNoDunder ==
    CopiedOnce =>
        \A p \in Created : Name(p) # ConfigYml /\ ~IsDunder(Name(p))

\* The source files the filtering policy keeps.
KeptFiles ==
    {p \in SrcFiles : ~Skipped(fs0, p, include_hidden) /\ ~InSkippedDir(p)}

\* C13 as stated: after a copy that succeeded, every source file the filter
\* keeps is in the output with its substituted content, and no two source
\* files were written to the same destination.
C13_NoFileLost ==
    CopiedOnce =>
        /\ \A p \in KeptFiles : Present(p)
        /\ \A p, q \in KeptFiles : p # q => Dest(p) # Dest(q)

\* C14: a copy from a source directory that does not exist raises
\* FileNotFoundError and leaves the file system as it was: the destination is
\* not made and nothing is written.
C14_MissingSourceRaises ==
    (runs >= 1 /\ ~Exists(fs0, src)) =>
        /\ raised = "FileNotFoundError"
        /\ fs = fs0

\* A copy from a missing source to a destination that did not exist either.
C14_Witness ==
    /\ runs = 1
    /\ ~Exists(fs0, src)
    /\ ~Exists(fs0, dst)
    /\ ~Exists(fs, dst)
    /\ raised = "FileNotFoundError"

-----------------------------------------------------------------------------
(* Claims about where a copy writes (EscapeSpec)                           *)

\* C28 as stated: every entry a copy created or wrote is the destination, is
\* under it, or is a directory on the way to it.
C28_WritesStayInside ==
    runs = 1 =>
        \A p \in DOMAIN fs :
            (p \notin DOMAIN fs0 \/ fs[p] # fs0[p]) =>
                (p = dst \/ IsUnder(p, dst) \/ p \in Prefixes(dst))

-----------------------------------------------------------------------------
(* Claims about the extra files of a copy (ExtraSpec)                      *)

\* The extra path e is in the output: a file under its base name, a directory
\* with every file of its subtree, each with its content substituted.
ExtraMerged(e) ==
    IF IsFile(fs0, e)
    THEN /\ IsFile(fs, dst \o <<Name(e)>>)
         /\ fs[dst \o <<Name(e)>>].data = ExpectedData(fs0[e].data)
    ELSE \A q \in DOMAIN fs0 :
            (IsUnder(q, e) /\ IsFile(fs0, q)) =>
                /\ IsFile(fs, dst \o <<Name(e)>> \o RelativeTo(q, e))
                /\ fs[dst \o <<Name(e)>> \o RelativeTo(q, e)].data = ExpectedData(fs0[q].data)

\* C15 as stated: a call that passes extra_files to a free destination raises
\* nothing, copies the template's files, and merges every extra path that
\* exists into the output; a path that does not exist is skipped.
C15_ExtraFilesMerged ==
    (runs = 1 /\ extra_files.passed) =>
        /\ raised = "none"
        /\ \A p \in KeptFiles : OwnDestination(p) => Present(p)
        /\ \A i \in 1..Len(extra_files.paths) :
              Exists(fs0, extra_files.paths[i]) => ExtraMerged(extra_files.paths[i])

-----------------------------------------------------------------------------
(* Claims about the command line (CliSpec)                                 *)

\* The --type text names no ProjectType.
UnsupportedTypeText == \A t \in ProjectTypes : TypeValue[t] # Lower(args.type)

\* C17: for a --type text that names no supported type, main goes no further
\* than create_project_config: it prints one document with success false
\* whose message names the text asked for, and the file system is as it was,
\* so no output directory is made or written.
C17_UnsupportedTypeFailsFirst ==
    (args.run_as # "none" /\ UnsupportedTypeText) =>
        /\ pc \in {"cli", "exited"}
        /\ fs = fs0
        /\ config = NoConfig
        /\ pc = "exited" =>
              /\ Len(stdout) = 1
              /\ ~stdout[1].success
              /\ stdout[1].message = ErrorPrefix \o UnsupportedType \o args.type
              /\ Contains(stdout[1].message, args.type)

\* A run for a type that is in the help text of the command line, but is not
\* a ProjectType, has ended with the error document.
C17_Witness ==
    /\ pc = "exited"
    /\ UnsupportedTypeText
    /\ args.type = <<"d", "j", "a", "n", "g", "o">>
    /\ Len(stdout) = 1
    /\ ~stdout[1].success
    /\ ~Exists(fs, OutputRoot)

\* C18 as stated: a run that has ended has printed exactly one document, and
\* its exit status is 0 when the document's success flag is true and 1 when
\* it is false; a run that has not ended has printed none.
C18_ExitMirrorsFlag ==
    /\ pc # "exited" => (stdout = <<>> /\ exit_code = -1)
    /\ pc = "exited" =>
          /\ Len(stdout) = 1
          /\ exit_code = (IF stdout[1].success THEN 0 ELSE 1)

\* C26 as stated: when --config is passed, the ProjectConfig that main builds
\* and initializes with is the one load_config makes of the file, whatever
\* the other arguments are.
C26_ConfigFileOverrides ==
    (args.run_as # "none" /\ args.config # <<>> /\ pc # "cli") =>
        /\ load_config(args.config[1]).raised = "none"
        /\ given = load_config(args.config[1]).config

\* C29 as stated: a run that has ended after initialize_project returned
\* True has printed success true with the template's configuration, and main
\* has returned 0; after it returned False the run has printed success false
\* and main has returned 1. (A console script exits with main's return value.)
C29_OutputAgreesWithOutcome ==
    (pc = "exited" /\ result \in {"True", "False"}) =>
        /\ Len(stdout) = 1
        /\ stdout[1].success = (result = "True")
        /\ result = "True" => stdout[1].template_config
        /\ args.run_as = "console_script" => exit_code = (IF result = "True" THEN 0 ELSE 1)

\* C30 as stated: the init info main resolved before initialize_project is
\* the one the template resolves when it is about to run a script, and the
\* script it runs is the one of that info.
C30_ReportedInfoIsUsed ==
    (args.run_as # "none" /\ results # <<>>) =>
        /\ pc \in {"pre", "post"} => results[1].info = get_init_info(fs, config, manifest)
        /\ pc = "pre_wait" => fs[TempScript(PreLabel)].data = results[1].info.pre_processing
        /\ pc = "post_wait" => fs[TempScript(PostLabel)].data = results[1].info.post_processing

====
